---- MODULE Spec2Model ----
(***************************************************************************)
(* JWK store of oauth2-mock-server (src/src/lib/types-internals.ts):       *)
(* JWKStore (generate / add / get / toJSON) on top of KeyRotator.          *)
(*                                                                         *)
(* A JWK is a JavaScript object.  It is modelled as a function over the    *)
(* property names the code and the key material use; a property that is    *)
(* absent (or deleted) reads as Undefined, exactly what `x.f === undefined`*)
(* observes in the source.                                                 *)
(***************************************************************************)
EXTENDS Integers, Sequences, FiniteSets, Bags, TLC

\* ---------------------------------------------------------------- bounds
\* Largest number of generate/add calls a behaviour lets reach an await
\* (all of them may be in flight together, and all may end in the store).
MaxCalls == 3

\* ------------------------------------------------------------ JWK values
Undefined == "undefined"

Fields ==
    {"alg", "kid", "kty", "crv", "n", "e", "d", "p", "q", "dp", "dq", "qi",
     "x", "y", "k"}

\* No object at all (the value of a variable not yet assigned, of a
\* parameter a call does not have).
NoJwk == <<>>

\* The object literal {}: no property defined.
EmptyJwk == [f \in Fields |-> Undefined]

\* The object with exactly the properties of the record r.
Obj(r) == [f \in Fields |-> IF f \in DOMAIN r THEN r[f] ELSE Undefined]

\* { ...obj }: a new object with the own properties of obj.
spread(obj) == [f \in Fields |-> obj[f]]

\* removeKey: copy, then delete one property of the copy.
removeKey(k, obj) == [spread(obj) EXCEPT ![k] = Undefined]

\* removeKeys: keys.reduce((r, k) => removeKey(k, r), o)
RECURSIVE removeKeys(_, _)
removeKeys(ks, o) ==
    IF ks = <<>> THEN o ELSE removeKeys(Tail(ks), removeKey(Head(ks), o))

\* Mutant of RsaPrivateFieldsRemover: qi is left out of the list.
RsaPrivateFieldsRemoverKeepsQi(jwk) ==
    removeKeys(<<"d", "p", "q", "dp", "dq">>, jwk)

RsaPrivateFieldsRemover(jwk) ==
    removeKeys(<<"d", "p", "q", "dp", "dq", "qi">>, jwk)

EcdsaPrivateFieldsRemover(jwk) == removeKeys(<<"d">>, jwk)

EddsaPrivateFieldsRemover(jwk) == removeKeys(<<"d">>, jwk)

\* The table of transformers, by the name of the transformer it holds.
privateToPublicTransformerMap ==
    [alg \in {"RS256", "RS384", "RS512", "PS256", "PS384", "PS512",
              "ES256", "ES256K", "ES384", "ES512", "EdDSA"} |->
        CASE alg \in {"RS256", "RS384", "RS512", "PS256", "PS384", "PS512"}
                 -> "RsaPrivateFieldsRemover"
          [] alg \in {"ES256", "ES256K", "ES384", "ES512"}
                 -> "EcdsaPrivateFieldsRemover"
          [] OTHER -> "EddsaPrivateFieldsRemover"]

\* cleaner(key) for cleaner = privateToPublicTransformerMap[alg]
cleaner(alg, jwk) ==
    CASE privateToPublicTransformerMap[alg] = "RsaPrivateFieldsRemover"
             -> RsaPrivateFieldsRemover(jwk)
      [] privateToPublicTransformerMap[alg] = "EcdsaPrivateFieldsRemover"
             -> EcdsaPrivateFieldsRemover(jwk)
      [] OTHER -> EddsaPrivateFieldsRemover(jwk)

\* Object.keys(privateToPublicTransformerMap)
supportedAlgs == DOMAIN privateToPublicTransformerMap

\* opts of generate / normalizeKey: `defined` is FALSE for an omitted argument.
NoOpts == [defined |-> FALSE, kid |-> Undefined, crv |-> Undefined]

MkOpts(kid, crv) == [defined |-> TRUE, kid |-> kid, crv |-> crv]

\* generateRandomKid(): 40 random bytes in hex; one of these per draw.
RandomKids == {"r1", "r2"}

\* Mutant of normalizeKey: opts.kid is not looked at.
normalizeKeyIgnoresOpts(jwk, opts, rnd) ==
    IF jwk.kid # Undefined
    THEN jwk
    ELSE [jwk EXCEPT !.kid = IF rnd = Undefined THEN "r1" ELSE rnd]

\* normalizeKey(jwk, opts), the object after the call; rnd is the value
\* generateRandomKid() would return.
normalizeKey(jwk, opts, rnd) ==
    IF jwk.kid # Undefined
    THEN jwk
    ELSE IF opts.defined /\ opts.kid # Undefined
         THEN [jwk EXCEPT !.kid = opts.kid]
         ELSE [jwk EXCEPT !.kid = rnd]

\* The values generateRandomKid() can return inside normalizeKey(jwk, opts):
\* it is called only when neither jwk nor opts gives a kid (Undefined stands
\* for no call).
kidDraws(jwk, opts) ==
    IF jwk.kid # Undefined \/ (opts.defined /\ opts.kid # Undefined)
    THEN {Undefined}
    ELSE RandomKids

\* ------------------------------------------------------------ KeyRotator
\* Array.prototype.findIndex over x.kid === kid (0-based, -1 when absent).
findIndex(ks, kid) ==
    IF \E i \in 1..Len(ks) : ks[i].kid = kid
    THEN (CHOOSE i \in 1..Len(ks) :
              /\ ks[i].kid = kid
              /\ \A j \in 1..(i - 1) : ks[j].kid # kid) - 1
    ELSE -1

\* Mutant of findNext: without a kid the last key is taken, not the first.
findNextTakesLast(ks, kid) ==
    IF Len(ks) = 0 THEN -1
    ELSE IF kid = Undefined THEN Len(ks) - 1
    ELSE findIndex(ks, kid)

\* Mutant of findNext: the kid argument is ignored.
findNextIgnoresKid(ks, kid) == IF Len(ks) = 0 THEN -1 ELSE 0

findNext(ks, kid) ==
    IF Len(ks) = 0 THEN -1
    ELSE IF kid = Undefined THEN 0
    ELSE findIndex(ks, kid)

\* this.#keys.splice(pos, 1): the array without the element at 0-based pos.
splice(ks, pos) == SubSeq(ks, 1, pos) \o SubSeq(ks, pos + 2, Len(ks))

\* Mutant of rotatorAdd: the duplicate is not removed before the push.
rotatorAddKeepsDuplicate(ks, key) == Append(ks, key)

\* KeyRotator.add: the array after the call.
rotatorAdd(ks, key) ==
    LET pos == findNext(ks, key.kid)
    IN  Append(IF pos > -1 THEN splice(ks, pos) ELSE ks, key)

\* Mutant of moveToTheEnd: the key is spliced out and not pushed back.
moveToTheEndDrops(ks, i) == splice(ks, i)

\* Mutant of moveToTheEnd: the key is put back at the head of the array.
moveToTheFront(ks, i) == <<ks[i + 1]>> \o splice(ks, i)

\* Mutant of moveToTheEnd: the key is returned but not moved.
moveToTheEndStays(ks, i) == ks

\* KeyRotator.moveToTheEnd: the array after the call (the key returned is
\* ks[i + 1], the element spliced out).
moveToTheEnd(ks, i) == Append(splice(ks, i), ks[i + 1])

\* KeyRotator.next: the array after the call and the value returned.
rotatorNext(ks, kid) ==
    LET i == findNext(ks, kid)
    IN  IF i = -1
        THEN [keys |-> ks, found |-> FALSE, key |-> NoJwk]
        ELSE [keys |-> moveToTheEnd(ks, i), found |-> TRUE, key |-> ks[i + 1]]

ErrMissingAlg == "Missing \"alg\" field"
ErrUnsupported == "Unsupported JWK \"alg\" value"
ErrUnspecified == "Unspecified JWK \"alg\" property"
ErrInvalidType == "Invalid JWK type"
ErrGenerator == "generateKeyPair rejected"
ErrParser == "parseJwk rejected"

\* assertIsString(value, message): throws unless value is a string.
assertIsString(value) == value # Undefined

\* KeyRotator.toJSON: the loop from the i-th key on, acc the array built so
\* far; a throw abandons the array.
RECURSIVE toJSONLoop(_, _, _, _)
toJSONLoop(ks, i, acc, includePrivateFields) ==
    IF i > Len(ks) THEN [thrown |-> FALSE, list |-> acc, err |-> ""]
    ELSE IF includePrivateFields
         THEN toJSONLoop(ks, i + 1, Append(acc, spread(ks[i])),
                         includePrivateFields)
    ELSE IF ~assertIsString(ks[i].alg)
         THEN [thrown |-> TRUE, list |-> <<>>, err |-> ErrMissingAlg]
    ELSE IF ks[i].alg \notin DOMAIN privateToPublicTransformerMap
         THEN [thrown |-> TRUE, list |-> <<>>, err |-> ErrUnsupported]
    ELSE toJSONLoop(ks, i + 1, Append(acc, cleaner(ks[i].alg, ks[i])),
                    includePrivateFields)

\* Mutant of rotatorToJSON: a record the table does not know is skipped
\* instead of ending the call with an error.
RECURSIVE toJSONLoopSkips(_, _, _, _)
toJSONLoopSkips(ks, i, acc, includePrivateFields) ==
    IF i > Len(ks) THEN [thrown |-> FALSE, list |-> acc, err |-> ""]
    ELSE IF includePrivateFields
         THEN toJSONLoopSkips(ks, i + 1, Append(acc, spread(ks[i])),
                              includePrivateFields)
    ELSE IF ks[i].alg \notin DOMAIN privateToPublicTransformerMap
         THEN toJSONLoopSkips(ks, i + 1, acc, includePrivateFields)
    ELSE toJSONLoopSkips(ks, i + 1, Append(acc, cleaner(ks[i].alg, ks[i])),
                         includePrivateFields)

rotatorToJSONSkips(ks, includePrivateFields) ==
    toJSONLoopSkips(ks, 1, <<>>, includePrivateFields)

\* Mutant of rotatorToJSON: the flag is not honoured, every export is the
\* redacted one.
rotatorToJSONRedacts(ks, includePrivateFields) ==
    toJSONLoop(ks, 1, <<>>, FALSE)

rotatorToJSON(ks, includePrivateFields) ==
    toJSONLoop(ks, 1, <<>>, includePrivateFields)

\* ------------------------------------------- external collaborators (jose)
\* Key material in interchange form, as the collaborators produce or accept
\* it; v stands for the key's numbers.
RsaPrivate(v) ==
    Obj([kty |-> "RSA", n |-> v, e |-> "AQAB", d |-> v, p |-> v, q |-> v,
         dp |-> v, dq |-> v, qi |-> v])

RsaPublic(v) == Obj([kty |-> "RSA", n |-> v, e |-> "AQAB"])

EcPrivate(crv, v) ==
    Obj([kty |-> "EC", crv |-> crv, x |-> v, y |-> v, d |-> v])

OkpPrivate(crv, v) == Obj([kty |-> "OKP", crv |-> crv, x |-> v, d |-> v])

Oct(v) == Obj([kty |-> "oct", k |-> v])

\* A key handle: a KeyObject of some type holding material, or (for
\* symmetric material) a byte array that is no KeyObject.
KeyHandle(isKeyObject, type, material) ==
    [keyObject |-> isKeyObject, type |-> type, material |-> material]

NoHandle == KeyHandle(FALSE, "none", NoJwk)

\* The numbers of a freshly generated key: material is opaque to the store,
\* so one value stands for every fresh key.
GeneratedNumbers == {"g1"}

\* generateKeyPair(alg, generateOpts): the private keys it can resolve to
\* (the empty set: it rejects).  jose accepts the signature algorithms of the
\* store and also key-management algorithms such as RSA-OAEP.
generateKeyPair(alg, generateOpts) ==
    CASE alg \in {"RS256", "RS384", "RS512", "PS256", "PS384", "PS512",
                  "RSA-OAEP"}
             -> {KeyHandle(TRUE, "private", RsaPrivate(v)) :
                     v \in GeneratedNumbers}
      [] alg = "ES256"
             -> {KeyHandle(TRUE, "private", EcPrivate("P-256", v)) :
                     v \in GeneratedNumbers}
      [] alg = "EdDSA" /\ generateOpts.crv \in {Undefined, "Ed25519", "Ed448"}
             -> {KeyHandle(TRUE, "private",
                           OkpPrivate(IF generateOpts.crv = Undefined
                                      THEN "Ed25519" ELSE generateOpts.crv, v)) :
                     v \in GeneratedNumbers}
      [] OTHER -> {}

\* fromKeyLike(key): the key's material in interchange form, without alg
\* and kid.
fromKeyLike(key) == [spread(key.material) EXCEPT !.alg = Undefined,
                                                 !.kid = Undefined]

\* parseJwk(jwk): the handles it can resolve to (the empty set: it rejects).
\* It goes by kty: a KeyObject for asymmetric material, private when d is
\* there; bytes for symmetric material.
parseJwk(jwk) ==
    CASE jwk.kty \in {"RSA", "EC", "OKP"}
             -> {KeyHandle(TRUE,
                           IF jwk.d # Undefined THEN "private" ELSE "public",
                           jwk)}
      [] jwk.kty = "oct" -> {KeyHandle(FALSE, "none", jwk)}
      [] OTHER -> {}

\* ------------------------------------------------------------------ state
VARIABLES
    keys,       \* KeyRotator.#keys of the store's rotator
    pending,    \* the generate/add calls suspended at an await (a bag)
    calls,      \* how many generate/add calls reached an await so far
    ret,        \* what the last step handed back to its caller
    rr          \* history: the adds, unpinned gets and export since the store was empty

vars == <<keys, pending, calls, ret, rr>>

\* ----------------------------------------------------------------- inputs
\* The key identifiers callers pass; "" is the empty string.
CallerKids == {"", "a", "b"}

\* add(jwk): the objects callers pass.
AddInputs ==
    { EmptyJwk,
      [Oct("m1") EXCEPT !.alg = "HS256", !.kid = "a"],
      [RsaPrivate("m1") EXCEPT !.alg = "RS256", !.kid = "a"],
      [RsaPrivate("m2") EXCEPT !.alg = "RS256", !.kid = "a"],
      [EcPrivate("P-256", "m1") EXCEPT !.alg = "ES256"],
      [EcPrivate("P-256", "m1") EXCEPT !.alg = "ES256", !.kid = "b"],
      [RsaPublic("m1") EXCEPT !.alg = "RS256", !.kid = "b"],
      [EmptyJwk EXCEPT !.alg = "RS256", !.kid = "a"] }

\* generate(alg, opts): the arguments callers pass.
GenerateInputs ==
    { <<"RS256", NoOpts>>,
      <<"EdDSA", MkOpts("", "Ed448")>>,
      <<"RSA-OAEP", MkOpts("b", Undefined)>>,
      <<"HS256", NoOpts>> }

\* get(kid): the arguments callers pass (Undefined: no argument).
GetInputs == {Undefined} \cup CallerKids \cup RandomKids

\* ------------------------------------------------------- what a step returns
Ret(op, kind) ==
    [op |-> op, kind |-> kind, kid |-> Undefined, includePrivateFields |-> FALSE,
     key |-> NoJwk, pos |-> -1, list |-> <<>>, err |-> "",
     arg |-> NoJwk, obj |-> NoJwk]

\* (arg is the object the caller passed to add, as it was at the call; obj is
\* that same object as it is when the step ends.)

\* Nothing handed back: a call suspended, or resumed and suspended again.
NoRet == Ret("none", "none")

\* A generate/add call returns its record; pos is the local `pos` of the
\* KeyRotator.add it made.
RetKey(op, key, pos, c) ==
    [Ret(op, "key") EXCEPT !.key = key, !.pos = pos, !.arg = c.arg, !.obj = c.obj]

RetError(op, err, c) ==
    [Ret(op, "error") EXCEPT !.err = err, !.arg = c.arg, !.obj = c.obj]

\* ----------------------------------------------------- suspended calls
\* (arg and obj as in Ret: the caller's object of an add call.)
Call(op, pc, alg, opts, key, jwk, arg, obj) ==
    [op |-> op, pc |-> pc, alg |-> alg, opts |-> opts, key |-> key, jwk |-> jwk,
     arg |-> arg, obj |-> obj]

Suspend(c) == pending (+) SetToBag({c})

Resume(c) == pending (-) SetToBag({c})

\* ------------------------------------------------------------- history
RrOff == [phase |-> "off", added |-> <<>>, gets |-> 0]

\* After a record entered the store.
RrInsert(key) ==
    IF rr.phase = "adding" /\ \A i \in 1..Len(rr.added) : rr.added[i].kid # key.kid
    THEN [rr EXCEPT !.added = Append(rr.added, key)]
    ELSE RrOff

\* After get(kid) returned.
RrGet(kid, found) ==
    IF kid = Undefined /\ found /\ rr.phase = "adding"
    THEN [rr EXCEPT !.phase = "getting", !.gets = 1]
    ELSE IF kid = Undefined /\ found /\ rr.phase = "getting"
            /\ rr.gets < 2 * Len(rr.added)
    THEN [rr EXCEPT !.gets = rr.gets + 1]
    ELSE RrOff

\* After toJSON(includePrivateFields) returned: the history goes on when the
\* gets so far made exactly one round over the records added.
RrExport ==
    IF rr.phase = "getting" /\ rr.gets = Len(rr.added)
    THEN [rr EXCEPT !.phase = "exported"]
    ELSE RrOff

Init ==
    /\ keys = <<>>
    /\ pending = EmptyBag
    /\ calls = 0
    /\ ret = NoRet
    /\ rr = [phase |-> "adding", added |-> <<>>, gets |-> 0]

\* ---------------------------------------------------------------- JWKStore
\* A call ends by handing its record to the rotator and returning it.
Insert(op, jwk, c) ==
    /\ keys' = rotatorAdd(keys, jwk)
    /\ ret' = RetKey(op, jwk, findNext(keys, jwk.kid), c)
    /\ rr' = RrInsert(jwk)

\* A call ends by throwing: nothing but the error reaches the caller.
Throw(op, err, c) ==
    /\ ret' = RetError(op, err, c)
    /\ rr' = RrOff
    /\ UNCHANGED keys

\* generate(alg, opts) up to its first await.
Generate(alg, opts) ==
    /\ calls < MaxCalls
    /\ calls' = calls + 1
    /\ pending' = Suspend(Call("generate", "generateKeyPair", alg, opts,
                               NoHandle, NoJwk, NoJwk, NoJwk))
    /\ ret' = NoRet
    /\ UNCHANGED <<keys, rr>>

\* generateOpts of generate.
generateOpts(opts) ==
    IF opts.defined /\ opts.crv # Undefined
    THEN [crv |-> opts.crv]
    ELSE [crv |-> Undefined]

\* `await generateKeyPair(alg, generateOpts)` settles.
GenerateKeyPairSettles(c) ==
    /\ c.op = "generate" /\ c.pc = "generateKeyPair"
    /\ IF generateKeyPair(c.alg, generateOpts(c.opts)) = {}
       THEN /\ pending' = Resume(c)
            /\ Throw("generate", ErrGenerator, c)
       ELSE \E privateKey \in generateKeyPair(c.alg, generateOpts(c.opts)) :
                /\ pending' = Resume(c) (+)
                       SetToBag({[c EXCEPT !.pc = "fromKeyLike",
                                           !.key = privateKey]})
                /\ ret' = NoRet
                /\ UNCHANGED <<keys, rr>>
    /\ UNCHANGED calls

\* Mutant of FromKeyLikeSettles: a copy of the converter's output goes to the
\* rotator before alg and kid are written.
FromKeyLikeSettlesAddsRaw(c) ==
    /\ c.op = "generate" /\ c.pc = "fromKeyLike"
    /\ Insert("generate", fromKeyLike(c.key), c)
    /\ pending' = Resume(c)
    /\ UNCHANGED calls

\* Mutant of FromKeyLikeSettles: generate yields once more before it
\* normalizes the key and hands it to the rotator.
FromKeyLikeSettlesYields(c) ==
    /\ c.op = "generate" /\ c.pc = "fromKeyLike"
    /\ pending' = Resume(c) (+) SetToBag({[c EXCEPT !.pc = "normalizeKey"]})
    /\ ret' = NoRet
    /\ UNCHANGED <<keys, calls, rr>>

\* `await fromKeyLike(pair.privateKey)` settles and generate runs to its end.
FromKeyLikeSettles(c) ==
    /\ c.op = "generate" /\ c.pc = "fromKeyLike"
    /\ \E rnd \in kidDraws(fromKeyLike(c.key), c.opts) :
           LET jwk == [fromKeyLike(c.key) EXCEPT !.alg = c.alg]
           IN  Insert("generate", normalizeKey(jwk, c.opts, rnd), c)
    /\ pending' = Resume(c)
    /\ UNCHANGED calls

\* Mutant of addPrologue: no copy is made, normalizeKey works on the caller's
\* object.
addPrologueAliases(jwk, rnd) ==
    [jwkUse |-> normalizeKey(jwk, NoOpts, rnd),
     obj |-> normalizeKey(jwk, NoOpts, rnd)]

\* The first two statements of add: jwkUse = { ...jwk }; normalizeKey(jwkUse).
\* jwkUse is the object add works on, obj the caller's object afterwards.
addPrologue(jwk, rnd) ==
    [jwkUse |-> normalizeKey(spread(jwk), NoOpts, rnd), obj |-> jwk]

\* Mutant of Add: the check against supportedAlgs is left out, so material
\* of any alg goes to the parser.
AddWithoutSupportedCheck(jwk) ==
    \E rnd \in kidDraws(jwk, NoOpts) :
        LET jwkUse == addPrologue(jwk, rnd).jwkUse
            c == Call("add", "parseJwk", Undefined, NoOpts, NoHandle, jwkUse,
                      jwk, addPrologue(jwk, rnd).obj)
        IN  IF jwkUse.alg = Undefined
            THEN Throw("add", ErrUnspecified, c) /\ UNCHANGED <<pending, calls>>
            ELSE /\ calls < MaxCalls
                 /\ calls' = calls + 1
                 /\ pending' = Suspend(c)
                 /\ ret' = NoRet
                 /\ UNCHANGED <<keys, rr>>

\* add(jwk) up to its await, or to the throw before it.
Add(jwk) ==
    \E rnd \in kidDraws(jwk, NoOpts) :
        LET jwkUse == addPrologue(jwk, rnd).jwkUse
            c == Call("add", "parseJwk", Undefined, NoOpts, NoHandle, jwkUse,
                      jwk, addPrologue(jwk, rnd).obj)
        IN  IF jwkUse.alg = Undefined
            THEN Throw("add", ErrUnspecified, c) /\ UNCHANGED <<pending, calls>>
            ELSE IF jwkUse.alg \notin supportedAlgs
            THEN Throw("add", ErrUnsupported, c) /\ UNCHANGED <<pending, calls>>
            ELSE /\ calls < MaxCalls
                 /\ calls' = calls + 1
                 /\ pending' = Suspend(c)
                 /\ ret' = NoRet
                 /\ UNCHANGED <<keys, rr>>

\* Mutant of ParseJwkSettles: the record goes to the rotator before the
\* handle is looked at.
ParseJwkSettlesAddsFirst(c) ==
    /\ c.op = "add" /\ c.pc = "parseJwk"
    /\ pending' = Resume(c)
    /\ UNCHANGED calls
    /\ IF parseJwk(c.jwk) = {}
       THEN Throw("add", ErrParser, c)
       ELSE \E privateKey \in parseJwk(c.jwk) :
                IF ~privateKey.keyObject \/ privateKey.type # "private"
                THEN /\ keys' = rotatorAdd(keys, c.jwk)
                     /\ ret' = RetError("add", ErrInvalidType, c)
                     /\ rr' = RrOff
                ELSE Insert("add", c.jwk, c)

\* `await parseJwk(jwkUse)` settles and add runs to its end.
ParseJwkSettles(c) ==
    /\ c.op = "add" /\ c.pc = "parseJwk"
    /\ pending' = Resume(c)
    /\ UNCHANGED calls
    /\ IF parseJwk(c.jwk) = {}
       THEN Throw("add", ErrParser, c)
       ELSE \E privateKey \in parseJwk(c.jwk) :
                IF ~privateKey.keyObject \/ privateKey.type # "private"
                THEN Throw("add", ErrInvalidType, c)
                ELSE Insert("add", c.jwk, c)

\* get(kid)
Get(kid) ==
    LET r == rotatorNext(keys, kid)
    IN  /\ keys' = r.keys
        /\ ret' = [Ret("get", IF r.found THEN "key" ELSE "undefined")
                      EXCEPT !.kid = kid, !.key = r.key]
        /\ rr' = RrGet(kid, r.found)
        /\ UNCHANGED <<pending, calls>>

\* Mutant of ToJSON: the redaction is made on the stored records themselves
\* instead of on copies.
ToJSONStripsInPlace(includePrivateFields) ==
    LET r == rotatorToJSON(keys, includePrivateFields)
    IN  /\ ret' = [Ret("toJSON", IF r.thrown THEN "error" ELSE "list")
                      EXCEPT !.includePrivateFields = includePrivateFields,
                             !.list = r.list, !.err = r.err]
        /\ rr' = RrExport
        /\ keys' = IF r.thrown THEN keys ELSE r.list
        /\ UNCHANGED <<pending, calls>>

\* toJSON(includePrivateFields)
ToJSON(includePrivateFields) ==
    LET r == rotatorToJSON(keys, includePrivateFields)
    IN  /\ ret' = [Ret("toJSON", IF r.thrown THEN "error" ELSE "list")
                      EXCEPT !.includePrivateFields = includePrivateFields,
                             !.list = r.list, !.err = r.err]
        /\ rr' = RrExport
        /\ UNCHANGED <<keys, pending, calls>>

Next ==
    \/ \E g \in GenerateInputs : Generate(g[1], g[2])
    \/ \E c \in BagToSet(pending) : GenerateKeyPairSettles(c)
    \/ \E c \in BagToSet(pending) : FromKeyLikeSettles(c)
    \/ \E jwk \in AddInputs : Add(jwk)
    \/ \E c \in BagToSet(pending) : ParseJwkSettles(c)
    \/ \E kid \in GetInputs : Get(kid)
    \/ \E b \in BOOLEAN : ToJSON(b)

Spec == Init /\ [][Next]_vars

\* ================================================================ claims
\* The property names an object has.
Props(jwk) == {f \in Fields : jwk[f] # Undefined}

\* The array without the records of one kid, the others in their order.
WithoutKid(ks, kid) == SelectSeq(ks, LAMBDA x : x.kid # kid)

\* C1 (round-robin): after N records with pairwise distinct kids entered an
\* empty store in the order r1..rN and nothing else returned in between,
\* the j-th of the following consecutive unpinned get() calls, for j up to
\* 2N, returns r((j-1) mod N + 1): r1..rN in order, then the same cycle.
C1_RoundRobin ==
    (rr.phase = "getting" /\ ret.op = "get") =>
        /\ ret.kind = "key"
        /\ ret.key = rr.added[((rr.gets - 1) % Len(rr.added)) + 1]

\* C1 witness: three records were added and six unpinned gets completed
\* the second cycle.
C1_Witness ==
    /\ rr.phase = "getting" /\ ret.op = "get"
    /\ Len(rr.added) = 3 /\ rr.gets = 6

C3_ReplaceOnDuplicate ==
    [][(ret'.op \in {"add", "generate"} /\ ret'.kind = "key") =>
          keys' = Append(WithoutKid(keys, ret'.key.kid), ret'.key)]_vars

\* C3 witness: an add replaced a stored record of its kid that was not the
\* last one, by a record of other content.
C3_Witness ==
    /\ ret.op = "add" /\ ret.kind = "key" /\ ret.pos = 0
    /\ Len(keys) = 2 /\ ret.key.kid = "a" /\ ret.key.n = "m2"
    /\ keys[2] = ret.key

\* C4 (kid uniqueness): no two records of the rotator have the same kid, in
\* every state, calls pending or not.
C4_KidUnique ==
    \A i, j \in 1..Len(keys) : i # j => keys[i].kid # keys[j].kid

\* C4 witness: a call replaced the stored record of its kid while another
\* call carrying the same kid was still suspended.
C4_Witness ==
    /\ ret.kind = "key" /\ ret.pos > -1 /\ ret.key.kid = "a"
    /\ \E c \in BagToSet(pending) : c.op = "add" /\ c.jwk.kid = "a"

\* The algorithms of the supported set, as the specification lists them.
SupportedSet ==
    {"RS256", "RS384", "RS512", "PS256", "PS384", "PS512",
     "ES256", "ES256K", "ES384", "ES512", "EdDSA"}

\* The private fields of an algorithm's family, as the specification lists
\* them.
FamilyPrivateFields(alg) ==
    CASE alg \in {"RS256", "RS384", "RS512", "PS256", "PS384", "PS512"}
             -> {"d", "p", "q", "dp", "dq", "qi"}
      [] alg \in {"ES256", "ES256K", "ES384", "ES512"} -> {"d"}
      [] alg = "EdDSA" -> {"d"}
      [] OTHER -> {}

\* C5 (supported-algorithm invariant): every stored record, entered through
\* generate or through add, has an alg of the supported set, and so
\* toJSON(false) never ends with the unsupported-algorithm error.
C5_SupportedAlgs ==
    /\ \A i \in 1..Len(keys) : keys[i].alg \in SupportedSet
    /\ (ret.op = "toJSON" /\ ~ret.includePrivateFields) =>
           ~(ret.kind = "error" /\ ret.err = ErrUnsupported)

\* C6 (non-empty kid invariant): every stored record has a kid that is a
\* non-empty string; an empty kid given by the caller is not stored.
C6_NonEmptyKid ==
    \A i \in 1..Len(keys) : keys[i].kid \notin {Undefined, ""}

\* C7 (redaction completeness): when toJSON(false) returns a list, it has
\* one entry per stored record in rotation order, and the i-th entry has
\* exactly the i-th record's fields minus the private fields of its family,
\* each with the stored value.
C7_RedactionComplete ==
    (ret.op = "toJSON" /\ ~ret.includePrivateFields /\ ret.kind = "list") =>
        /\ Len(ret.list) = Len(keys)
        /\ \A i \in 1..Len(keys) :
               /\ Props(ret.list[i]) =
                      Props(keys[i]) \ FamilyPrivateFields(keys[i].alg)
               /\ \A f \in Props(ret.list[i]) : ret.list[i][f] = keys[i][f]

\* C7 witness: toJSON(false) returned the entries of an RSA, an ECDSA and an
\* EdDSA record.
C7_Witness ==
    /\ ret.op = "toJSON" /\ ~ret.includePrivateFields /\ ret.kind = "list"
    /\ Len(ret.list) = 3
    /\ {keys[i].alg : i \in 1..Len(keys)} = {"RS256", "ES256", "EdDSA"}

\* The places of the stored records toJSON(false) cannot redact.
Unredactable ==
    {i \in 1..Len(keys) :
        keys[i].alg = Undefined \/ keys[i].alg \notin SupportedSet}

\* C8 (fail-closed export): when a stored record has no alg or an alg the
\* redaction table does not know, toJSON(false) ends with the error of the
\* first such record (missing alg, respectively unsupported algorithm) and
\* returns no list; a list it returns has no entry holding a private field
\* of its family.
C8_FailClosed ==
    (ret.op = "toJSON" /\ ~ret.includePrivateFields) =>
        /\ Unredactable # {} =>
               /\ ret.kind = "error" /\ ret.list = <<>>
               /\ LET first == CHOOSE i \in Unredactable :
                                   \A j \in Unredactable : i <= j
                  IN  ret.err = IF keys[first].alg = Undefined
                                THEN ErrMissingAlg ELSE ErrUnsupported
        /\ ret.kind = "list" =>
               \A i \in 1..Len(ret.list) :
                   Props(ret.list[i]) \cap
                       FamilyPrivateFields(ret.list[i].alg) = {}
        /\ ret.kind \in {"list", "error"}

\* C8 witness: toJSON(false) ended with the unsupported-algorithm error for
\* a record that stands behind a record it can redact.
C8_Witness ==
    /\ ret.op = "toJSON" /\ ~ret.includePrivateFields /\ ret.kind = "error"
    /\ ret.err = ErrUnsupported
    /\ Len(keys) >= 2 /\ 1 \notin Unredactable

\* C9 (full fidelity): toJSON(true) always returns a list, of the length of
\* the array, whose i-th entry has the fields and values of the i-th record.
C9_FullFidelity ==
    (ret.op = "toJSON" /\ ret.includePrivateFields) =>
        /\ ret.kind = "list"
        /\ Len(ret.list) = Len(keys)
        /\ \A i \in 1..Len(keys) : ret.list[i] = keys[i]

\* C9 witness: toJSON(true) returned three records with their private
\* fields, one of them of an algorithm toJSON(false) refuses.
C9_Witness ==
    /\ ret.op = "toJSON" /\ ret.includePrivateFields /\ ret.kind = "list"
    /\ Len(ret.list) = 3 /\ Unredactable # {}
    /\ \A i \in 1..3 : "d" \in Props(ret.list[i])

\* C10 (no partial mutation on failure): a generate/add call that ends with
\* an error leaves the array as it was, and the caller gets the error.
C10_NoPartialMutation ==
    [][(ret'.op \in {"add", "generate"} /\ ret'.kind = "error") =>
          /\ keys' = keys
          /\ ret'.err \in {ErrUnspecified, ErrUnsupported, ErrParser,
                           ErrInvalidType, ErrGenerator}]_vars

\* C10 witness: add was rejected for material that is no private key, with
\* records in the store.
C10_Witness ==
    /\ ret.op = "add" /\ ret.kind = "error" /\ ret.err = ErrInvalidType
    /\ Len(keys) = 2

\* An add call that ended with the given error.
AddFailed(err) == ret.kind = "error" /\ ret.err = err

\* The parser resolves the material to a handle that is no private key.
NotPrivate(jwk) ==
    \E h \in parseJwk(jwk) : ~h.keyObject \/ h.type # "private"

\* No suspended add call carries material without alg or with an alg outside
\* the supported set: the alg checks come before the parser is invoked.
AlgCheckedBeforeParser ==
    \A c \in BagToSet(pending) : c.op = "add" => c.arg.alg \in SupportedSet

\* C11 as stated (error classification of add): add fails with the
\* unspecified-algorithm error for material without alg, with the
\* unsupported-algorithm error for an alg outside the supported set, with the
\* invalid-key-type error when the parsed handle is no private key, and
\* succeeds, inserting the record, in every remaining case; the alg checks
\* come before the parser.
C11_Classification ==
    /\ AlgCheckedBeforeParser
    /\ ret.op = "add" =>
           IF ret.arg.alg = Undefined THEN AddFailed(ErrUnspecified)
           ELSE IF ret.arg.alg \notin SupportedSet THEN AddFailed(ErrUnsupported)
           ELSE IF NotPrivate(ret.arg) THEN AddFailed(ErrInvalidType)
           ELSE /\ ret.kind = "key"
                /\ Len(keys) > 0 /\ keys[Len(keys)] = ret.key

\* C11 amended (error classification of add): as stated, and when the alg is
\* supported and the external parser itself rejects the material, add fails
\* with the parser's error; it succeeds, inserting the record, in every
\* remaining case.
C11_ClassificationWithParser ==
    /\ AlgCheckedBeforeParser
    /\ ret.op = "add" =>
           IF ret.arg.alg = Undefined THEN AddFailed(ErrUnspecified)
           ELSE IF ret.arg.alg \notin SupportedSet THEN AddFailed(ErrUnsupported)
           ELSE IF parseJwk(ret.arg) = {} THEN AddFailed(ErrParser)
           ELSE IF NotPrivate(ret.arg) THEN AddFailed(ErrInvalidType)
           ELSE /\ ret.kind = "key"
                /\ Len(keys) > 0 /\ keys[Len(keys)] = ret.key

\* C11 witness: add of material with a supported alg ended with the parser's
\* error, with a record in the store.
C11_Witness ==
    /\ ret.op = "add" /\ AddFailed(ErrParser)
    /\ ret.arg.alg \in SupportedSet /\ Len(keys) >= 1

\* The traced scenario: the records that entered the empty store are an RSA
\* record of kid "a" and then an ECDSA record of kid "b".
Scenario ==
    /\ Len(rr.added) = 2
    /\ rr.added[1].kty = "RSA" /\ rr.added[1].kid = "a"
    /\ rr.added[2].kty = "EC" /\ rr.added[2].kid = "b"

\* The names of the private fields of all families.
PrivateNames == {"d", "p", "q", "dp", "dq", "qi"}

\* The gets of the traced scenario: the first unpinned get returns the "a"
\* record, the second the "b" record.
ScenarioGets ==
    (Scenario /\ rr.phase = "getting" /\ ret.op = "get") =>
        /\ ret.kind = "key"
        /\ rr.gets = 1 => ret.key = rr.added[1]
        /\ rr.gets = 2 => ret.key = rr.added[2]

\* The toJSON(false) that follows the two gets of the traced scenario returns
\* two public-only objects, of the kids given, in that order.
ScenarioExport(kid1, kid2) ==
    (Scenario /\ rr.phase = "exported" /\ ret.op = "toJSON"
        /\ ~ret.includePrivateFields) =>
        /\ ret.kind = "list" /\ Len(ret.list) = 2
        /\ \A i \in 1..2 : Props(ret.list[i]) \cap PrivateNames = {}
        /\ ret.list[1].kid = kid1 /\ ret.list[2].kid = kid2

\* C12 as stated (traced scenario): from an empty store, add an RSA record
\* of kid "a", then an ECDSA record of kid "b"; the first unpinned get
\* returns the "a" record, the second the "b" record, and the toJSON(false)
\* that follows returns two public-only objects in the order [b, a].
C12_TracedScenario == ScenarioGets /\ ScenarioExport("b", "a")

\* C12 amended (traced scenario): as stated, but the toJSON(false) that
\* follows the two gets returns the two public-only objects in the order
\* [a, b]: the second get moved the "b" record behind the "a" record.
C12_TracedScenarioOrder ==
    /\ ScenarioGets
    /\ ScenarioExport("a", "b")
    /\ (Scenario /\ rr.phase = "exported") => keys = rr.added

\* C12 witness: toJSON(false) returned its list right after the two gets of
\* the traced scenario.
C12_Witness ==
    /\ Scenario /\ rr.phase = "exported"
    /\ ret.op = "toJSON" /\ ~ret.includePrivateFields /\ ret.kind = "list"
    /\ \A i \in 1..2 : "d" \in Props(keys[i])

\* C13 (export is read-only and repeatable): a toJSON call, with either flag
\* and whether it returns a list or ends with an error, leaves the array and
\* every field of every stored record as they were; a toJSON(false) that
\* directly follows a toJSON(false) yields the same output.
C13_ExportReadOnly ==
    [][ret'.op = "toJSON" =>
          /\ keys' = keys
          /\ (ret.op = "toJSON" /\ ~ret.includePrivateFields
                  /\ ~ret'.includePrivateFields) =>
                 /\ ret'.kind = ret.kind
                 /\ ret'.list = ret.list
                 /\ ret'.err = ret.err]_vars

\* C13 witness: toJSON(false) returned a redacted list while the stored
\* records still hold their private fields.
C13_Witness ==
    /\ ret.op = "toJSON" /\ ~ret.includePrivateFields /\ ret.kind = "list"
    /\ Len(keys) >= 2
    /\ \A i \in 1..Len(keys) :
           /\ "d" \in Props(keys[i])
           /\ "d" \notin Props(ret.list[i])

\* C14 (add leaves the caller's object alone): while an add call is
\* suspended and after it returned or failed, every field of the object the
\* caller passed is as it was at the call (no kid is written into it); the
\* record returned and stored is another object, with the fields of the
\* input and, when the input had no kid, a generated kid.
C14_InputUntouched ==
    /\ \A c \in BagToSet(pending) : c.op = "add" => c.obj = c.arg
    /\ ret.op = "add" => ret.obj = ret.arg
    /\ (ret.op = "add" /\ ret.kind = "key") =>
           /\ keys[Len(keys)] = ret.key
           /\ IF ret.arg.kid # Undefined
              THEN ret.key = ret.arg
              ELSE /\ ret.key.kid \in RandomKids
                   /\ ret.key = [ret.arg EXCEPT !.kid = ret.key.kid]

\* C14 witness: add returned a record with a generated kid for an input
\* without kid, and the input still has none.
C14_Witness ==
    /\ ret.op = "add" /\ ret.kind = "key"
    /\ ret.arg.kid = Undefined /\ ret.obj.kid = Undefined
    /\ ret.key.kid \in RandomKids

\* The records of an array, as a set.
Stored(ks) == {ks[i] : i \in 1..Len(ks)}

\* C15 (effect of get on the array): a get, pinned or not, that returns a
\* record leaves that record last, the other records in their previous
\* relative order, and the set of stored records and the length as they
\* were; a get that returns undefined (empty store, or no record of the
\* pinned kid) leaves the array as it was.
C15_GetEffect ==
    [][ret'.op = "get" =>
          IF ret'.kind = "key"
          THEN /\ ret'.key \in Stored(keys)
               /\ keys'[Len(keys')] = ret'.key
               /\ WithoutKid(keys', ret'.key.kid) = WithoutKid(keys, ret'.key.kid)
               /\ Stored(keys') = Stored(keys)
               /\ Len(keys') = Len(keys)
          ELSE /\ keys' = keys
               /\ \/ keys = <<>>
                  \/ /\ ret'.kid # Undefined
                     /\ \A i \in 1..Len(keys) : keys[i].kid # ret'.kid]_vars

\* C15 witness: a get pinned to kid "b" returned its record out of a store
\* of three, the record now last behind the records of the other kids.
C15_Witness ==
    /\ ret.op = "get" /\ ret.kid = "b" /\ ret.kind = "key"
    /\ Len(keys) = 3 /\ keys[3].kid = "b"
    /\ pending = EmptyBag

\* C16 (no deletion): in every step of generate/add/get/toJSON a kid that is
\* stored stays stored and the number of stored records does not decrease;
\* a stored record stops being stored only in the step in which a generate
\* or add returns, having inserted a record of the same kid.
C16_NoDeletion ==
    [][/\ \A i \in 1..Len(keys) : \E j \in 1..Len(keys') :
              keys'[j].kid = keys[i].kid
       /\ Len(keys') >= Len(keys)
       /\ \A r \in Stored(keys) \ Stored(keys') :
              /\ ret'.op \in {"add", "generate"} /\ ret'.kind = "key"
              /\ ret'.key.kid = r.kid
              /\ ret'.key \in Stored(keys')]_vars

\* C16 witness: a generate replaced the stored record of kid "b" in a store
\* of two records.
C16_Witness ==
    /\ ret.op = "generate" /\ ret.kind = "key" /\ ret.pos > -1
    /\ ret.key.kid = "b" /\ Len(keys) = 2

\* C17 as stated (suspension points): the only point at which an operation
\* of the store yields control is the external key-generation call inside
\* generate; add, get and toJSON run without a suspension point.
C17_OnlyGenerateSuspends ==
    \A c \in BagToSet(pending) : c.op = "generate" /\ c.pc = "generateKeyPair"

\* C17 amended (suspension points): the points at which an operation of the
\* store yields control are the external key-generation call and the
\* external conversion call inside generate and the external parser call
\* inside add; get and toJSON run without a suspension point.
C17_SuspensionPoints ==
    \A c \in BagToSet(pending) :
        \/ c.op = "generate" /\ c.pc \in {"generateKeyPair", "fromKeyLike"}
        \/ c.op = "add" /\ c.pc = "parseJwk"

\* C17 witness: a get returned a record while an add call was suspended at
\* the parser and a generate call at the conversion.
C17_Witness ==
    /\ ret.op = "get" /\ ret.kind = "key"
    /\ \E c \in BagToSet(pending) : c.op = "add" /\ c.pc = "parseJwk"
    /\ \E c \in BagToSet(pending) : c.op = "generate" /\ c.pc = "fromKeyLike"

\* C18 (result of generate): when generate returns a record, the call that
\* returns was suspended at the conversion, the record has the alg the call
\* was made with and the kid of its opts when they give one, a generated kid
\* otherwise, and the record is the last element of the array right after.
C18_GenerateResult ==
    [][(ret'.op = "generate" /\ ret'.kind = "key") =>
          \E c \in BagToSet(pending) :
              /\ c.op = "generate" /\ c.pc = "fromKeyLike"
              /\ pending' = pending (-) SetToBag({c})
              /\ ret'.key.alg = c.alg
              /\ IF c.opts.defined /\ c.opts.kid # Undefined
                 THEN ret'.key.kid = c.opts.kid
                 ELSE ret'.key.kid \in RandomKids
              /\ keys'[Len(keys')] = ret'.key]_vars

\* C18 witness: a generate made without opts returned an RS256 record with a
\* generated kid, last behind two other records.
C18_Witness ==
    /\ ret.op = "generate" /\ ret.kind = "key"
    /\ ret.key.alg = "RS256" /\ ret.key.kid \in RandomKids
    /\ Len(keys) = 3 /\ keys[3] = ret.key

\* The 1-based places of a record in an array (none, or one).
Places(ks, r) == {i \in 1..Len(ks) : ks[i] = r}

\* C19 (bounded wait in rotation), as the two step properties it follows
\* from by induction on the position p.  In every step, whatever calls are
\* suspended: a stored record keeps its place or moves towards the head,
\* unless the step is a get that returns it or a generate/add that inserts a
\* record of its kid; and an unpinned get on a non-empty store returns the
\* record at the head and moves every other record one place towards the
\* head.  So the record at 0-based position p is at the head after at most p
\* further unpinned gets and is returned by the next one at the latest.
C19_BoundedWait ==
    [][/\ \A i \in 1..Len(keys) :
              \/ \E j \in Places(keys', keys[i]) : j <= i
              \/ ret'.op = "get" /\ ret'.kind = "key" /\ ret'.key = keys[i]
              \/ /\ ret'.op \in {"add", "generate"} /\ ret'.kind = "key"
                 /\ ret'.key.kid = keys[i].kid
       /\ (ret'.op = "get" /\ ret'.kid = Undefined /\ keys # <<>>) =>
              /\ ret'.kind = "key" /\ ret'.key = keys[1]
              /\ \A i \in 2..Len(keys) : keys'[i - 1] = keys[i]]_vars

\* C19 witness: an unpinned get returned a record out of a store of two
\* while a generate or add call was suspended.
C19_Witness ==
    /\ ret.op = "get" /\ ret.kid = Undefined /\ ret.kind = "key"
    /\ Len(keys) = 2 /\ keys[2] = ret.key
    /\ pending # EmptyBag

\* A record that has its alg and its kid.
Complete(r) == r.alg # Undefined /\ r.kid # Undefined

\* Material add rejects after the parser settled.
Rejected(jwk) == parseJwk(jwk) = {} \/ NotPrivate(jwk)

\* C20 (visibility under interleaving): with generate/add calls suspended
\* between the get and toJSON calls, in every step
\*  - a record not stored before is stored after only when the step is the
\*    one in which a generate/add returns that record, complete and, for
\*    add, of a supported alg and parsed to a private key;
\*  - every stored record, every record a get returns and every entry of a
\*    list toJSON returns has alg and kid;
\*  - a generate/add that ends with an error leaves the array as it was, and
\*    the material of a failing add is not stored, neither while the call is
\*    suspended nor after it failed;
\*  - after a generate/add returned, the only stored record of its kid is
\*    the one it returned, whichever calls of that kid returned before.
C20_Visibility ==
    [][/\ \A r \in Stored(keys') \ Stored(keys) :
              /\ ret'.op \in {"add", "generate"} /\ ret'.kind = "key"
              /\ r = ret'.key
              /\ ret'.op = "add" =>
                     r.alg \in SupportedSet /\ ~Rejected(r)
       /\ \A r \in Stored(keys') : Complete(r)
       /\ (ret'.op = "get" /\ ret'.kind = "key") =>
              ret'.key \in Stored(keys') /\ Complete(ret'.key)
       /\ (ret'.op = "toJSON" /\ ret'.kind = "list") =>
              /\ Len(ret'.list) = Len(keys')
              /\ \A i \in 1..Len(ret'.list) :
                     /\ Complete(ret'.list[i])
                     /\ ret'.list[i].kid = keys'[i].kid
       /\ (ret'.op \in {"add", "generate"} /\ ret'.kind = "error") =>
              /\ keys' = keys
              /\ ret'.op = "add" =>
                     \A r \in Stored(keys') :
                         [r EXCEPT !.kid = Undefined] #
                             [ret'.arg EXCEPT !.kid = Undefined]
       /\ \A c \in BagToSet(pending') :
              (c.op = "add" /\ Rejected(c.jwk)) => c.jwk \notin Stored(keys')
       /\ (ret'.op \in {"add", "generate"} /\ ret'.kind = "key") =>
              \A r \in Stored(keys') : r.kid = ret'.key.kid => r = ret'.key]_vars

\* C20 witness: a get returned the stored record of kid "a" while an add
\* call carrying another record of kid "a" and an add call whose material
\* will be rejected were suspended.
C20_Witness ==
    /\ ret.op = "get" /\ ret.kind = "key" /\ ret.key.kid = "a"
    /\ \E c \in BagToSet(pending) :
           c.op = "add" /\ c.jwk.kid = "a" /\ ~Rejected(c.jwk) /\ c.jwk # ret.key
    /\ \E c \in BagToSet(pending) : c.op = "add" /\ Rejected(c.jwk)

====
